---- MODULE Spec2Model ----
(***************************************************************************)
(* Model of bot.py: the per-chat message batching (debounce) of            *)
(* handle_message / process_batched_messages, the conversation memory      *)
(* (get_history / add_message), the router and the specialist, and the     *)
(* manager notification.                                                   *)
(*                                                                         *)
(* Text is a sequence of one-character strings.  The asyncio event loop    *)
(* runs one coroutine at a time and switches only at an await that really  *)
(* suspends, so every action below is the code between two suspensions.    *)
(* route_message and specialist_respond call the backend synchronously     *)
(* (no await inside), so classify, respond and both add_message calls run  *)
(* in one step after send_chat_action returns.                             *)
(***************************************************************************)
EXTENDS Integers, Sequences, FiniteSets, TLC

\* ---- program constants ----
MAX_HISTORY == 10
DEBOUNCE_SECONDS == 3

\* ---- bounds of the model ----
\* accepted fragments, all chats together (Spec)
MaxFragments == 2
\* accepted fragments of the single chat of SpecBurst
MaxBurstFragments == 3
\* accepted fragments of the single chat of SpecStore
MaxStoreFragments == 17
\* pieces a raw output of the backend is put together from (SpecBackend)
MaxRawPieces == 3

Keys == {1, 2}
NoTask == 0

SP == " "
WS == {" ", "\n"}
PUNCT == {".", ",", "!", "\"", "'"}
MARKER == <<"[", "M", "A", "N", "A", "G", "E", "R", "]">>
APOLOGY == <<"I", "z", "v", "i", "n", "i", "t", "e">>
OtherLabel == <<"o", "t", "h", "e", "r">>

CATEGORY_KB ==
  { <<"g", "e", "n", "e", "r", "a", "l">>,
    <<"e", "n", "t", "r", "a", "n", "c", "e">>,
    <<"a", "t", "t", "r", "a", "c", "t", "i", "o", "n", "s">>,
    <<"b", "i", "r", "t", "h", "d", "a", "y">>,
    <<"b", "o", "o", "k", "i", "n", "g">>,
    <<"m", "e", "n", "u">>,
    <<"d", "r", "i", "n", "k", "s">>,
    <<"r", "a", "m", "a", "d", "a", "n">>,
    <<"v", "a", "c", "a", "n", "c", "y">>,
    <<"c", "o", "m", "p", "l", "a", "i", "n", "t">>,
    OtherLabel }

\* ---- str helpers ----
RECURSIVE LStrip(_, _)
LStrip(s, chars) ==
  IF s # <<>> /\ Head(s) \in chars THEN LStrip(Tail(s), chars) ELSE s

RECURSIVE RStrip(_, _)
RStrip(s, chars) ==
  IF s # <<>> /\ s[Len(s)] \in chars
  THEN RStrip(SubSeq(s, 1, Len(s) - 1), chars) ELSE s

\* str.strip(chars)
StripChars(s, chars) == RStrip(LStrip(s, chars), chars)

\* str.strip()
Strip(s) == StripChars(s, WS)

\* " ".join(messages)
RECURSIVE Join(_)
Join(messages) ==
  IF messages = <<>> THEN <<>>
  ELSE IF Len(messages) = 1 THEN messages[1]
  ELSE messages[1] \o <<SP>> \o Join(Tail(messages))

StartsWith(s, p) == Len(s) >= Len(p) /\ SubSeq(s, 1, Len(p)) = p

\* p in s
Contains(s, p) ==
  \E i \in 1..(Len(s) - Len(p) + 1) : SubSeq(s, i, i + Len(p) - 1) = p

\* s.replace(p, ""): left to right, non-overlapping
RECURSIVE Replace(_, _)
Replace(s, p) ==
  IF s = <<>> THEN <<>>
  ELSE IF StartsWith(s, p) THEN Replace(SubSeq(s, Len(p) + 1, Len(s)), p)
  ELSE <<Head(s)>> \o Replace(Tail(s), p)

LowerChar(c) ==
  CASE c = "M" -> "m"
    [] c = "E" -> "e"
    [] c = "N" -> "n"
    [] c = "U" -> "u"
    [] c = "O" -> "o"
    [] OTHER -> c

\* str.lower()
Lower(s) == [i \in 1..Len(s) |-> LowerChar(s[i])]

\* s.split()[0] of a string that does not start with whitespace
RECURSIVE FirstWord(_)
FirstWord(s) ==
  IF s = <<>> \/ Head(s) \in WS THEN <<>>
  ELSE <<Head(s)>> \o FirstWord(Tail(s))

\* ---- conversation memory ----
\* mutant: the read keeps one entry less
get_historyShort(conv) ==
  IF Len(conv) > MAX_HISTORY - 1
  THEN SubSeq(conv, Len(conv) - MAX_HISTORY + 2, Len(conv)) ELSE conv

\* mutant: the read is not bounded
get_historyAll(conv) == conv

get_history(conv) ==
  IF Len(conv) > MAX_HISTORY
  THEN SubSeq(conv, Len(conv) - MAX_HISTORY + 1, Len(conv)) ELSE conv

\* mutant: the trim happens one entry early
add_messageEarly(conv, role, content) ==
  LET c == Append(conv, [role |-> role, content |-> content])
  IN IF Len(c) >= MAX_HISTORY * 2
     THEN SubSeq(c, Len(c) - MAX_HISTORY + 1, Len(c)) ELSE c

add_message(conv, role, content) ==
  LET c == Append(conv, [role |-> role, content |-> content])
  IN IF Len(c) > MAX_HISTORY * 2
     THEN SubSeq(c, Len(c) - MAX_HISTORY + 1, Len(c)) ELSE c

\* ---- router ----
\* reply: [ok, content], ok = FALSE when the backend call raises
\* mutant: a failure of the backend call yields no label
route_messageNoFallback(reply) ==
  IF ~reply.ok THEN <<>>
  ELSE LET stripped == Lower(Strip(reply.content))
       IN IF stripped = <<>> THEN OtherLabel
          ELSE LET category == StripChars(FirstWord(stripped), PUNCT)
               IN IF category \notin CATEGORY_KB THEN OtherLabel ELSE category

\* mutant: the word of the backend is returned without the membership check
route_messageUnchecked(reply) ==
  IF ~reply.ok THEN OtherLabel
  ELSE LET stripped == Lower(Strip(reply.content))
       IN IF stripped = <<>> THEN OtherLabel
          ELSE StripChars(FirstWord(stripped), PUNCT)

route_message(reply) ==
  IF ~reply.ok THEN OtherLabel
  ELSE LET stripped == Lower(Strip(reply.content))
       IN IF stripped = <<>> THEN OtherLabel    \* split()[0] raises IndexError
          ELSE LET category == StripChars(FirstWord(stripped), PUNCT)
               IN IF category \notin CATEGORY_KB THEN OtherLabel ELSE category

\* ---- specialist ----
\* mutant: the marker stays in the visible text
specialist_respondKeepMarker(category, reply) ==
  IF ~reply.ok
  THEN [response |-> APOLOGY, needs_manager |-> FALSE, category |-> category]
  ELSE LET raw == Strip(reply.content)
       IN [response |-> raw,
           needs_manager |-> Contains(raw, MARKER),
           category |-> category]

\* mutant: a failure of the backend call escalates the turn
specialist_respondEscalateOnError(category, reply) ==
  IF ~reply.ok
  THEN [response |-> APOLOGY, needs_manager |-> TRUE, category |-> category]
  ELSE LET raw == Strip(reply.content)
       IN [response |-> Strip(Replace(raw, MARKER)),
           needs_manager |-> Contains(raw, MARKER),
           category |-> category]

specialist_respond(category, reply) ==
  IF ~reply.ok
  THEN [response |-> APOLOGY, needs_manager |-> FALSE, category |-> category]
  ELSE LET raw == Strip(reply.content)
       IN [response |-> Strip(Replace(raw, MARKER)),
           needs_manager |-> Contains(raw, MARKER),
           category |-> category]

VARIABLES
  conversations,    \* chat_id -> list of [role, content]
  message_buffers,  \* chat_id -> list of fragments (absent key = empty list)
  debounce_tasks,   \* chat_id -> task of the chat (NoTask = key absent)
  tasks,            \* chat_id -> the process_batched_messages tasks created
                    \* for the chat, task i created by its i-th fragment
  MANAGER_CHAT_ID,  \* "" when not configured
  received,         \* history variable: chat_id -> accepted fragments, each
                    \* with quiet = at least DEBOUNCE_SECONDS passed since
                    \* the previous one
  age,              \* chat_id -> time since the last accepted fragment,
                    \* capped at DEBOUNCE_SECONDS
  script,           \* the replies of the backend of a run of SpecBackend,
                    \* [router, specialist]; the other specifications
                    \* leave it at NoScript
  reset_mark        \* history variable of SpecReset: chat_id -> number of
                    \* fragments accepted before cmd_start last ran for the
                    \* chat; the other specifications leave it at 0

vars == <<conversations, message_buffers, debounce_tasks, tasks,
          MANAGER_CHAT_ID, received, age, script, reset_mark>>

Terminal == {"done", "cancelled", "typing_error", "deliver_error"}

\* mutant: the sleep is one second short
NewTaskShort ==
  [pc |-> "sleep", timer |-> DEBOUNCE_SECONDS - 1, messages |-> <<>>,
   combined_text |-> <<>>, category |-> <<>>, response |-> <<>>,
   needs_manager |-> FALSE, notified |-> FALSE, wiped |-> FALSE]

NewTask ==
  [pc |-> "sleep", timer |-> DEBOUNCE_SECONDS, messages |-> <<>>,
   combined_text |-> <<>>, category |-> <<>>, response |-> <<>>,
   needs_manager |-> FALSE, notified |-> FALSE, wiped |-> FALSE]
\* wiped is a history variable: cmd_start ran after the task appended its
\* turn and before its send_message returned

\* the coroutine of task t has returned or raised: its locals are gone
Finish(t, pc) ==
  [t EXCEPT !.pc = pc, !.category = <<>>, !.response = <<>>, !.wiped = FALSE]

\* mutant: the previous timer task is not cancelled
CancelNothing(ts, i) == ts

\* Task.cancel(): no effect on a finished task, otherwise CancelledError is
\* raised in the task at the await where it is suspended
Cancel(ts, i) ==
  IF i = NoTask \/ ts[i].pc \in Terminal THEN ts
  ELSE [ts EXCEPT ![i].pc = "cancelled"]

BackendError == [ok |-> FALSE, content |-> <<>>]

\* no replies are fixed in advance: every call of the backend draws its own
NoScript == [router |-> BackendError, specialist |-> BackendError]

Init ==
  /\ conversations = [k \in Keys |-> <<>>]
  /\ message_buffers = [k \in Keys |-> <<>>]
  /\ debounce_tasks = [k \in Keys |-> NoTask]
  /\ tasks = [k \in Keys |-> <<>>]
  /\ MANAGER_CHAT_ID \in {"", "42"}
  /\ received = [k \in Keys |-> <<>>]
  /\ age = [k \in Keys |-> DEBOUNCE_SECONDS]
  /\ script = NoScript
  /\ reset_mark = [k \in Keys |-> 0]

\* mutant: one buffer for all chats
HandleMessageOneBuffer(k, text) ==
  LET user_text == Strip(text)
      n == Len(tasks[k]) + 1
  IN /\ user_text # <<>>
     /\ message_buffers' = [message_buffers EXCEPT ![1] = Append(@, user_text)]
     /\ tasks' = [tasks EXCEPT
                    ![k] = Append(Cancel(@, debounce_tasks[k]), NewTask)]
     /\ debounce_tasks' = [debounce_tasks EXCEPT ![k] = n]
     /\ received' = [received EXCEPT
                       ![k] = Append(@, [text |-> user_text,
                                      quiet |-> age[k] >= DEBOUNCE_SECONDS])]
     /\ age' = [age EXCEPT ![k] = 0]
     /\ UNCHANGED <<conversations, MANAGER_CHAT_ID,
                 script, reset_mark>>

\* ---- handle_message ----
HandleMessage(k, text) ==
  LET user_text == Strip(text)
      n == Len(tasks[k]) + 1
  IN /\ user_text # <<>>
     /\ message_buffers' = [message_buffers EXCEPT ![k] = Append(@, user_text)]
     /\ tasks' = [tasks EXCEPT
                    ![k] = Append(Cancel(@, debounce_tasks[k]), NewTask)]
     /\ debounce_tasks' = [debounce_tasks EXCEPT ![k] = n]
     /\ received' = [received EXCEPT
                       ![k] = Append(@, [text |-> user_text,
                                      quiet |-> age[k] >= DEBOUNCE_SECONDS])]
     /\ age' = [age EXCEPT ![k] = 0]
     /\ UNCHANGED <<conversations, MANAGER_CHAT_ID,
                 script, reset_mark>>

\* ---- one second passes ----
Tick ==
  /\ \/ \E k \in Keys : age[k] < DEBOUNCE_SECONDS
     \/ \E k \in Keys : \E i \in 1..Len(tasks[k]) :
          tasks[k][i].pc = "sleep" /\ tasks[k][i].timer > 0
  /\ age' = [k \in Keys |->
               IF age[k] < DEBOUNCE_SECONDS THEN age[k] + 1 ELSE age[k]]
  /\ tasks' = [k \in Keys |-> [i \in 1..Len(tasks[k]) |->
                 IF tasks[k][i].pc = "sleep" /\ tasks[k][i].timer > 0
                 THEN [tasks[k][i] EXCEPT !.timer = @ - 1]
                 ELSE tasks[k][i]]]
  /\ UNCHANGED <<conversations, message_buffers, debounce_tasks,
                 MANAGER_CHAT_ID, received,
                 script, reset_mark>>

\* mutant: the buffer is read and not cleared
FireKeepBuffer(k, i) ==
  /\ i \in 1..Len(tasks[k])
  /\ tasks[k][i].pc = "sleep"
  /\ tasks[k][i].timer = 0
  /\ LET messages == message_buffers[k]
     IN tasks' = [tasks EXCEPT ![k][i] =
                    IF messages = <<>>
                    THEN [@ EXCEPT !.pc = "done"]
                    ELSE [@ EXCEPT !.pc = "typing",
                                   !.messages = messages,
                                   !.combined_text = Join(messages)]]
  /\ debounce_tasks' = [debounce_tasks EXCEPT ![k] = NoTask]
  /\ UNCHANGED <<conversations, message_buffers, MANAGER_CHAT_ID,
                 received, age,
                 script, reset_mark>>

\* mutant: the task stays in debounce_tasks after it drained the buffer
FireKeepHandle(k, i) ==
  /\ i \in 1..Len(tasks[k])
  /\ tasks[k][i].pc = "sleep"
  /\ tasks[k][i].timer = 0
  /\ LET messages == message_buffers[k]
     IN tasks' = [tasks EXCEPT ![k][i] =
                    IF messages = <<>>
                    THEN [@ EXCEPT !.pc = "done"]
                    ELSE [@ EXCEPT !.pc = "typing",
                                   !.messages = messages,
                                   !.combined_text = Join(messages)]]
  /\ message_buffers' = [message_buffers EXCEPT ![k] = <<>>]
  /\ UNCHANGED <<conversations, debounce_tasks, MANAGER_CHAT_ID,
                 received, age,
                 script, reset_mark>>

\* ---- process_batched_messages: the sleep is over, drain the buffer ----
Fire(k, i) ==
  /\ i \in 1..Len(tasks[k])
  /\ tasks[k][i].pc = "sleep"
  /\ tasks[k][i].timer = 0
  /\ LET messages == message_buffers[k]
     IN tasks' = [tasks EXCEPT ![k][i] =
                    IF messages = <<>>
                    THEN [@ EXCEPT !.pc = "done"]
                    ELSE [@ EXCEPT !.pc = "typing",
                                   !.messages = messages,
                                   !.combined_text = Join(messages)]]
  /\ message_buffers' = [message_buffers EXCEPT ![k] = <<>>]
  /\ debounce_tasks' = [debounce_tasks EXCEPT ![k] = NoTask]
  /\ UNCHANGED <<conversations, MANAGER_CHAT_ID, received, age,
                 script, reset_mark>>

\* mutant: the reply is sent before the history is saved
ProcessSendFirst(k, i, ok, routerReply, specialistReply) ==
  /\ i \in 1..Len(tasks[k])
  /\ tasks[k][i].pc = "typing"
  /\ IF ~ok
     THEN tasks' = [tasks EXCEPT ![k][i] = Finish(@, "typing_error")]
     ELSE LET category == route_message(routerReply)
              result == specialist_respond(category, specialistReply)
          IN tasks' = [tasks EXCEPT ![k][i] =
                         [@ EXCEPT !.pc = "deliver",
                                   !.category =
                                     IF result.needs_manager
                                     THEN category ELSE <<>>,
                                   !.response = result.response,
                                   !.needs_manager = result.needs_manager]]
  /\ UNCHANGED <<conversations, message_buffers, debounce_tasks,
                 MANAGER_CHAT_ID, received, age,
                 script, reset_mark>>

\* ---- process_batched_messages: send_chat_action returned or raised ----
\* category is read again only by the call of notify_manager, so the task
\* keeps it only when result["needs_manager"] holds
Process(k, i, ok, routerReply, specialistReply) ==
  /\ i \in 1..Len(tasks[k])
  /\ tasks[k][i].pc = "typing"
  /\ IF ~ok
     THEN /\ tasks' = [tasks EXCEPT ![k][i] = Finish(@, "typing_error")]
          /\ UNCHANGED conversations
     ELSE LET combined_text == tasks[k][i].combined_text
              category == route_message(routerReply)
              result == specialist_respond(category, specialistReply)
              c1 == add_message(conversations[k], "user", combined_text)
              c2 == add_message(c1, "assistant", result.response)
          IN /\ conversations' = [conversations EXCEPT ![k] = c2]
             /\ tasks' = [tasks EXCEPT ![k][i] =
                            [@ EXCEPT !.pc = "deliver",
                                      !.category =
                                        IF result.needs_manager
                                        THEN category ELSE <<>>,
                                      !.response = result.response,
                                      !.needs_manager = result.needs_manager]]
  /\ UNCHANGED <<message_buffers, debounce_tasks, MANAGER_CHAT_ID,
                 received, age,
                 script, reset_mark>>

\* ---- process_batched_messages: send_message returned or raised ----
Deliver(k, i, ok) ==
  /\ i \in 1..Len(tasks[k])
  /\ tasks[k][i].pc = "deliver"
  /\ tasks' = [tasks EXCEPT ![k][i] =
       IF ~ok THEN Finish(@, "deliver_error")
       ELSE IF ~@.needs_manager THEN Finish(@, "done")
       ELSE IF MANAGER_CHAT_ID = ""
            THEN Finish([@ EXCEPT !.notified = TRUE], "done")
            ELSE [@ EXCEPT !.pc = "notify", !.notified = TRUE]]
  /\ UNCHANGED <<conversations, message_buffers, debounce_tasks,
                 MANAGER_CHAT_ID, received, age,
                 script, reset_mark>>

\* ---- notify_manager: send_message to the manager returned or raised ----
Notify(k, i, ok) ==
  /\ i \in 1..Len(tasks[k])
  /\ tasks[k][i].pc = "notify"
  /\ tasks' = [tasks EXCEPT ![k][i] = Finish(@, "done")]
  /\ UNCHANGED <<conversations, message_buffers, debounce_tasks,
                 MANAGER_CHAT_ID, received, age,
                 script, reset_mark>>

\* ---- cmd_start ----
CmdStart(k) ==
  /\ conversations' = [conversations EXCEPT ![k] = <<>>]
  /\ tasks' = [tasks EXCEPT ![k] = [i \in 1..Len(@) |->
                 IF @[i].pc = "deliver"
                 THEN [@[i] EXCEPT !.wiped = TRUE] ELSE @[i]]]
  /\ UNCHANGED <<message_buffers, debounce_tasks, MANAGER_CHAT_ID,
                 received, age,
                 script, reset_mark>>

\* cmd_start, with the number of fragments accepted so far written to the
\* history variable reset_mark (SpecReset)
CmdStartRecorded(k) ==
  /\ conversations' = [conversations EXCEPT ![k] = <<>>]
  /\ tasks' = [tasks EXCEPT ![k] = [i \in 1..Len(@) |->
                 IF @[i].pc = "deliver"
                 THEN [@[i] EXCEPT !.wiped = TRUE] ELSE @[i]]]
  /\ reset_mark' = [reset_mark EXCEPT ![k] = Len(received[k])]
  /\ UNCHANGED <<message_buffers, debounce_tasks, MANAGER_CHAT_ID,
                 received, age,
                 script>>

\* ---- inputs ----
\* the stripped text of the n-th fragment of chat k: a word, or a phrase with
\* a space inside; the words of the two chats differ
Word(k, n) ==
  LET w == << <<"a1", "a2", "a3", "a4", "a5", "a6", "a7", "a8", "a9", "a10",
                "a11", "a12", "a13", "a14", "a15", "a16", "a17", "a18", "a19",
                "a20", "a21", "a22", "a23", "a24">>,
              <<"b1", "b2", "b3", "b4", "b5", "b6", "b7", "b8", "b9", "b10",
                "b11", "b12", "b13", "b14", "b15", "b16", "b17", "b18", "b19",
                "b20", "b21", "b22", "b23", "b24">> >>[k][n]
  IN IF n % 2 = 0 THEN <<w, SP, "x">> ELSE <<w>>

\* the text of the next update of chat k, in one of the forms
RawText(k, form) ==
  LET w == Word(k, Len(received[k]) + 1)
  IN CASE form = "none" -> <<>>
       [] form = "blank" -> <<SP, "\n">>
       [] form = "plain" -> w
       [] form = "padded" -> <<SP>> \o w \o <<"\n">>

Forms == {"none", "blank", "plain", "padded"}

RouterReplies ==
  { BackendError,
    [ok |-> TRUE, content |-> <<"M", "e", "n", "u", ".">>],
    [ok |-> TRUE, content |-> <<"h", "i">>] }

ReplyWord == <<"ra", "rb">>

Escalating(k) == [ok |-> TRUE, content |-> <<ReplyWord[k], SP>> \o MARKER]

SpecialistReplies(k) ==
  { BackendError, [ok |-> TRUE, content |-> <<ReplyWord[k]>>], Escalating(k) }

TotalReceived == Len(received[1]) + Len(received[2])

\* two chats, every outcome of every external call
Next ==
  \/ \E k \in Keys, form \in Forms :
       TotalReceived < MaxFragments /\ HandleMessage(k, RawText(k, form))
  \/ Tick
  \/ \E k \in Keys, i \in 1..MaxFragments : Fire(k, i)
  \/ \E k \in Keys, i \in 1..MaxFragments, ok \in BOOLEAN,
        rr \in RouterReplies :
       \E sr \in SpecialistReplies(k) : Process(k, i, ok, rr, sr)
  \/ \E k \in Keys, i \in 1..MaxFragments, ok \in BOOLEAN : Deliver(k, i, ok)
  \/ \E k \in Keys, i \in 1..MaxFragments, ok \in BOOLEAN : Notify(k, i, ok)
  \/ \E k \in Keys : CmdStart(k)

Spec == Init /\ [][Next]_vars

\* one chat, longer sequences of fragments; the specialist always escalates
\* and send_message of the reply succeeds
NextBurst ==
  \/ \E form \in Forms :
       Len(received[1]) < MaxBurstFragments /\ HandleMessage(1, RawText(1, form))
  \/ Tick
  \/ \E i \in 1..MaxBurstFragments : Fire(1, i)
  \/ \E i \in 1..MaxBurstFragments, ok \in BOOLEAN, rr \in RouterReplies :
       Process(1, i, ok, rr, Escalating(1))
  \/ \E i \in 1..MaxBurstFragments : Deliver(1, i, TRUE)
  \/ \E i \in 1..MaxBurstFragments, ok \in BOOLEAN : Notify(1, i, ok)
  \/ CmdStart(1)

SpecBurst == Init /\ [][NextBurst]_vars

\* one chat, many turns: the user writes again only after the turn before
\* is finished, and the external calls of a turn succeed
NextStore ==
  \/ \E form \in Forms :
       /\ Len(received[1]) < MaxStoreFragments
       /\ \A i \in 1..Len(tasks[1]) : tasks[1][i].pc \in Terminal
       /\ HandleMessage(1, RawText(1, form))
  \/ Tick
  \/ \E i \in 1..MaxStoreFragments : Fire(1, i)
  \/ \E i \in 1..MaxStoreFragments :
       Process(1, i, TRUE, [ok |-> TRUE, content |-> <<"M", "e", "n", "u">>],
               Escalating(1))
  \/ \E i \in 1..MaxStoreFragments : Deliver(1, i, TRUE)
  \/ \E i \in 1..MaxStoreFragments, ok \in BOOLEAN : Notify(1, i, ok)
  \/ CmdStart(1)

SpecStore == Init /\ [][NextStore]_vars

\* ---- raw outputs of the backend ----
\* every concatenation of at most n of the pieces
RECURSIVE Concats(_, _)
Concats(pieces, n) ==
  IF n = 0 THEN {<<>>}
  ELSE LET shorter == Concats(pieces, n - 1)
       IN shorter \cup {a \o p : a \in shorter, p \in pieces}

\* a label in lower and in mixed case, a word that is no label, whitespace
\* and punctuation: empty, whitespace-only, several words, a label inside
\* punctuation, an unknown word
RouterPieces ==
  { <<"m", "e", "n", "u">>, <<"M", "e", "n", "u">>, <<"h", "i">>,
    <<SP>>, <<".">>, <<"!">> }

MarkerHead == <<"[", "M", "A", "N">>
MarkerTail == <<"A", "G", "E", "R", "]">>

\* text, text next to whitespace, the marker and its two halves: the marker
\* at the start, in the middle, at the end, several times and nested
SpecialistPieces ==
  { <<"p">>, <<"p", SP>>, <<SP, "q">>, MARKER, MarkerHead, MarkerTail }

Replies(raws) == {BackendError} \cup {[ok |-> TRUE, content |-> r] : r \in raws}

\* one of the two replies varies, the other one is fixed
Scripts ==
  {[router |-> r, specialist |-> Escalating(1)] :
     r \in Replies(Concats(RouterPieces, MaxRawPieces))}
  \cup
  {[router |-> [ok |-> TRUE, content |-> <<"M", "e", "n", "u", ".">>],
    specialist |-> r] :
     r \in Replies(Concats(SpecialistPieces, MaxRawPieces))}

InitBackend ==
  /\ conversations = [k \in Keys |-> <<>>]
  /\ message_buffers = [k \in Keys |-> <<>>]
  /\ debounce_tasks = [k \in Keys |-> NoTask]
  /\ tasks = [k \in Keys |-> <<>>]
  /\ MANAGER_CHAT_ID \in {"", "42"}
  /\ received = [k \in Keys |-> <<>>]
  /\ age = [k \in Keys |-> DEBOUNCE_SECONDS]
  /\ script \in Scripts
  /\ reset_mark = [k \in Keys |-> 0]

\* one chat, one message, the replies of the backend fixed by the script
NextBackend ==
  \/ \E form \in Forms :
       received[1] = <<>> /\ HandleMessage(1, RawText(1, form))
  \/ Tick
  \/ Fire(1, 1)
  \/ \E ok \in BOOLEAN : Process(1, 1, ok, script.router, script.specialist)
  \/ \E ok \in BOOLEAN : Deliver(1, 1, ok)
  \/ \E ok \in BOOLEAN : Notify(1, 1, ok)

SpecBackend == InitBackend /\ [][NextBackend]_vars

\* one chat, every outcome of every external call, cmd_start recorded in
\* reset_mark
NextReset ==
  \/ \E form \in Forms :
       TotalReceived < MaxFragments /\ HandleMessage(1, RawText(1, form))
  \/ Tick
  \/ \E i \in 1..MaxFragments : Fire(1, i)
  \/ \E i \in 1..MaxFragments, ok \in BOOLEAN, rr \in RouterReplies,
        sr \in SpecialistReplies(1) : Process(1, i, ok, rr, sr)
  \/ \E i \in 1..MaxFragments, ok \in BOOLEAN : Deliver(1, i, ok)
  \/ \E i \in 1..MaxFragments, ok \in BOOLEAN : Notify(1, i, ok)
  \/ CmdStartRecorded(1)

SpecReset == Init /\ [][NextReset]_vars

\* the event loop resumes a task whose sleep or awaited call has finished,
\* and time passes
FairBackend ==
  /\ WF_vars(Tick)
  /\ WF_vars(Fire(1, 1))
  /\ WF_vars(\E ok \in BOOLEAN :
               Process(1, 1, ok, script.router, script.specialist))
  /\ WF_vars(\E ok \in BOOLEAN : Deliver(1, 1, ok))
  /\ WF_vars(\E ok \in BOOLEAN : Notify(1, 1, ok))

SpecBackendFair == SpecBackend /\ FairBackend

\* ---- helpers of the properties ----
\* task i of chat k drained a non-empty buffer: an aggregated turn
Turn(k, i) == tasks[k][i].messages # <<>>

InFlight(t) == t.pc \in {"typing", "deliver", "notify"}

Sleeping(ts) == {i \in 1..Len(ts) : ts[i].pc = "sleep"}

Elements(s) == {s[p] : p \in 1..Len(s)}

\* the texts of the fragments lo..hi of chat k, in arrival order
Texts(k, lo, hi) == [j \in 1..(hi - lo + 1) |-> received[k][lo + j - 1].text]

Largest(S) == IF S = {} THEN 0 ELSE CHOOSE j \in S : \A m \in S : m <= j

\* the last aggregated turn of chat k before task i (0: none)
PrevTurn(k, i) == Largest({j \in 1..(i - 1) : Turn(k, j)})

\* the first fragment of the maximal run of gaps < D that holds fragment i
RunStart(k, i) == Largest({j \in 1..i : j = 1 \/ received[k][j].quiet})

RECURSIVE Offset(_, _)
Offset(msgs, j) ==
  IF j = 1 THEN 0 ELSE Offset(msgs, j - 1) + Len(msgs[j - 1]) + 1

\* text is msgs[1], one space, msgs[2], one space, ...
SpaceJoined(text, msgs) ==
  /\ msgs # <<>>
  /\ Len(text) = Offset(msgs, Len(msgs)) + Len(msgs[Len(msgs)])
  /\ \A j \in 1..Len(msgs) :
       SubSeq(text, Offset(msgs, j) + 1, Offset(msgs, j) + Len(msgs[j]))
         = msgs[j]
  /\ \A j \in 2..Len(msgs) : text[Offset(msgs, j)] = SP

\* C1 (as stated): the aggregated turns are exactly the maximal runs of
\* fragments with gaps < D: every turn holds the fragments of the run that
\* ends with its last fragment, joined by single spaces, and a fragment that
\* is followed by a gap >= D closes a turn (its timer is never cancelled).
C1_MaximalRuns ==
  \A k \in Keys : \A i \in 1..Len(tasks[k]) :
    /\ Turn(k, i) =>
         /\ tasks[k][i].messages = Texts(k, RunStart(k, i), i)
         /\ SpaceJoined(tasks[k][i].combined_text, tasks[k][i].messages)
    /\ (i < Len(received[k]) /\ received[k][i + 1].quiet)
         => tasks[k][i].pc # "cancelled"

\* C1 (amended): the aggregated turns are consecutive runs of the fragments
\* in arrival order, joined by single spaces; a turn ends only in front of a
\* gap >= D, so a burst with all gaps < D is never split and yields one turn;
\* only the task of the last fragment can be pending and only the task of an
\* earlier fragment can be cancelled.
C1_Debounce ==
  \A k \in Keys :
    /\ Len(tasks[k]) = Len(received[k])
    /\ \A i \in 1..Len(tasks[k]) :
         /\ Turn(k, i) =>
              /\ tasks[k][i].messages = Texts(k, PrevTurn(k, i) + 1, i)
              /\ SpaceJoined(tasks[k][i].combined_text, tasks[k][i].messages)
         /\ (Turn(k, i) /\ i < Len(received[k])) => received[k][i + 1].quiet
         /\ tasks[k][i].pc = "cancelled" => i < Len(received[k])
         /\ tasks[k][i].pc = "sleep" => i = Len(received[k])
         /\ tasks[k][i].pc \notin {"sleep", "cancelled"} => Turn(k, i)

\* two turns on one chat, split at a gap, the later one a burst
C1_Witness ==
  \E k \in Keys : \E i \in 1..Len(tasks[k]) : \E j \in 1..Len(tasks[k]) :
    /\ i < j
    /\ Turn(k, i)
    /\ Turn(k, j)
    /\ Len(tasks[k][j].messages) >= 2

\* C2: every accepted fragment is held exactly once, by the buffer or by one
\* aggregated turn, and a fragment in the buffer has a pending timer task
\* that will drain it.
C2_NoLossNoDup ==
  \A k \in Keys : \A j \in 1..Len(received[k]) :
    LET text == received[k][j].text
        inBuffer == {p \in 1..Len(message_buffers[k]) :
                       message_buffers[k][p] = text}
        inTurns == {ip \in (1..Len(tasks[k])) \X (1..Len(received[k])) :
                      /\ ip[2] <= Len(tasks[k][ip[1]].messages)
                      /\ tasks[k][ip[1]].messages[ip[2]] = text}
    IN /\ Cardinality(inBuffer) + Cardinality(inTurns) = 1
       /\ inBuffer # {} =>
            /\ debounce_tasks[k] # NoTask
            /\ tasks[k][debounce_tasks[k]].pc = "sleep"

\* a fragment arrived when the timer had expired and its task had not run:
\* the task was cancelled with no time left, and a later turn holds its
\* fragment
C2_Witness ==
  \E k \in Keys : \E i \in 1..Len(tasks[k]) : \E j \in 1..Len(tasks[k]) :
    /\ i < j
    /\ tasks[k][i].pc = "cancelled"
    /\ tasks[k][i].timer = 0
    /\ Turn(k, j)
    /\ received[k][i].text \in Elements(tasks[k][j].messages)

OneTimer(ts, handle) ==
  /\ Cardinality(Sleeping(ts)) <= 1
  /\ Sleeping(ts) \subseteq {handle}

\* C3: each chat has at most one pending timer task, the one debounce_tasks
\* names; a fragment cancels the pending one and starts exactly one new one.
C3_OneActiveTimer ==
  [][\A k \in Keys :
       /\ OneTimer(tasks[k], debounce_tasks[k])
       /\ OneTimer(tasks'[k], debounce_tasks'[k])
       /\ Len(received'[k]) > Len(received[k]) =>
            /\ Len(tasks'[k]) = Len(tasks[k]) + 1
            /\ Sleeping(tasks'[k]) = {Len(tasks'[k])}
            /\ tasks'[k][Len(tasks'[k])].timer = DEBOUNCE_SECONDS
            /\ \A i \in Sleeping(tasks[k]) : tasks'[k][i].pc = "cancelled"
    ]_vars

\* a cancelled timer task and the one started in its place
C3_Witness ==
  \E k \in Keys : \E i \in 1..Len(tasks[k]) :
    /\ i < Len(tasks[k])
    /\ tasks[k][i].pc = "cancelled"
    /\ tasks[k][Len(tasks[k])].pc = "sleep"

\* C4: a fragment that arrives while a drained turn is in flight leaves the
\* task of that turn as it is, goes to a buffer that holds none of the
\* turn's fragments and gets a new timer task; a turn holds only fragments
\* that arrived before its timer task was created or with it.
C4_NextTurn ==
  [][\A k \in Keys : \A i \in 1..Len(tasks[k]) :
       /\ Turn(k, i) =>
            Elements(tasks[k][i].messages) \subseteq Elements(Texts(k, 1, i))
       /\ (InFlight(tasks[k][i]) /\ Len(received'[k]) > Len(received[k])) =>
            LET n == Len(received'[k])
            IN /\ tasks'[k][i] = tasks[k][i]
               /\ message_buffers'[k] # <<>>
               /\ message_buffers'[k][Len(message_buffers'[k])]
                    = received'[k][n].text
               /\ Elements(message_buffers'[k])
                    \cap Elements(tasks[k][i].messages) = {}
               /\ debounce_tasks'[k] = n
               /\ tasks'[k][n].pc = "sleep"
               /\ tasks'[k][n].timer = DEBOUNCE_SECONDS
    ]_vars

\* a turn in flight and a later fragment waiting for its own timer
C4_Witness ==
  \E k \in Keys : \E i \in 1..Len(tasks[k]) :
    /\ InFlight(tasks[k][i])
    /\ i < Len(tasks[k])
    /\ tasks[k][Len(tasks[k])].pc = "sleep"
    /\ message_buffers[k] # <<>>

\* the last n entries of s
LastN(s, n) == [j \in 1..n |-> s[Len(s) - n + j]]

\* the buffer, the handle and the history of chat k, and its tasks without
\* the time left on their timers
KeyState(k) ==
  <<message_buffers[k], debounce_tasks[k], conversations[k],
    [i \in 1..Len(tasks[k]) |-> [tasks[k][i] EXCEPT !.timer = 0]]>>

\* what chat k holds comes from chat k: buffered and aggregated fragments are
\* fragments received on k, user entries of the history are aggregated turns
\* of k and assistant entries are replies produced for k
Own(k) ==
  LET mine == Elements(Texts(k, 1, Len(received[k])))
  IN /\ Elements(message_buffers[k]) \subseteq mine
     /\ \A i \in 1..Len(tasks[k]) : Elements(tasks[k][i].messages) \subseteq mine
     /\ \A e \in 1..Len(conversations[k]) :
          LET m == conversations[k][e]
          IN IF m.role = "user"
             THEN \E i \in 1..Len(tasks[k]) :
                    Turn(k, i) /\ m.content = tasks[k][i].combined_text
             ELSE m.content \in {APOLOGY, <<ReplyWord[k]>>}

\* C5: each chat's buffer, turns and history hold only what was received and
\* produced on that chat, and no step changes the buffer, the handle, the
\* history or the tasks of more than one chat.
C5_KeyIndependence ==
  [][/\ \A k \in Keys : Own(k) /\ Own(k)'
     /\ Cardinality({k \in Keys : KeyState(k)' # KeyState(k)}) <= 1
    ]_vars

\* both chats have a turn saved and its reply on the way at the same time
C5_Witness ==
  /\ \E i \in 1..Len(tasks[1]) : tasks[1][i].pc = "deliver"
  /\ \E j \in 1..Len(tasks[2]) : tasks[2][j].pc = "deliver"
  /\ conversations[1] # <<>>
  /\ conversations[2] # <<>>

\* the two history entries of the turn of task t
Pair(t) ==
  << [role |-> "user", content |-> t.combined_text],
     [role |-> "assistant", content |-> t.response] >>

HasPair(conv, pair) ==
  \E e \in 1..(Len(conv) - 1) : <<conv[e], conv[e + 1]>> = pair

\* C6: when send_message is called with the reply of a turn, the history of
\* the chat ends with the turn's user entry and assistant entry; while that
\* send is pending (and cmd_start has not run) the history holds the pair,
\* and a turn of the same chat classified meanwhile reads it in get_history.
C6_AppendThenDeliver ==
  [][\A k \in Keys : \A i \in 1..Len(tasks[k]) :
       /\ (tasks[k][i].pc # "deliver" /\ tasks'[k][i].pc = "deliver") =>
            /\ tasks[k][i].pc = "typing"
            /\ Len(conversations'[k]) >= 2
            /\ LastN(conversations'[k], 2) = Pair(tasks'[k][i])
            /\ \A j \in 1..Len(tasks[k]) :
                 (tasks[k][j].pc = "deliver" /\ ~tasks[k][j].wiped) =>
                   HasPair(get_history(conversations[k]), Pair(tasks[k][j]))
       /\ (tasks[k][i].pc = "deliver" /\ ~tasks[k][i].wiped) =>
            HasPair(conversations[k], Pair(tasks[k][i]))
    ]_vars

\* a turn was classified and saved while the reply of an earlier turn of the
\* chat was still being sent
C6_Witness ==
  \E k \in Keys : \E i \in 1..Len(tasks[k]) : \E j \in 1..Len(tasks[k]) :
    /\ i # j
    /\ tasks[k][i].pc = "deliver" /\ ~tasks[k][i].wiped
    /\ tasks[k][j].pc = "deliver" /\ ~tasks[k][j].wiped
    /\ Len(conversations[k]) = 4

\* C7: a finished turn has invoked notify_manager exactly when its result
\* has needs_manager.
C7_EscalationNotified ==
  \A k \in Keys : \A i \in 1..Len(tasks[k]) :
    tasks[k][i].pc \in {"done", "deliver_error"} =>
      (tasks[k][i].notified <=> tasks[k][i].needs_manager)

\* C8: the stored history never has more than 2H entries, and a turn is
\* saved as two appends, each followed by a cut to the H most recent entries
\* when it made the list longer than 2H.
C8_HistoryBound ==
  [][\A k \in Keys :
       /\ Len(conversations[k]) <= 2 * MAX_HISTORY
       /\ Len(conversations'[k]) <= 2 * MAX_HISTORY
       /\ \A i \in 1..Len(tasks[k]) :
            (tasks[k][i].pc = "typing" /\ tasks'[k][i].pc = "deliver") =>
              LET pair == Pair(tasks'[k][i])
                  withUser == conversations[k] \o <<pair[1]>>
                  afterUser == IF Len(withUser) > 2 * MAX_HISTORY
                               THEN LastN(withUser, MAX_HISTORY)
                               ELSE withUser
                  withReply == afterUser \o <<pair[2]>>
              IN conversations'[k] =
                   IF Len(withReply) > 2 * MAX_HISTORY
                   THEN LastN(withReply, MAX_HISTORY) ELSE withReply
    ]_vars

\* the history was cut: an odd number of entries is stored
C8_Witness ==
  \E k \in Keys : Len(conversations[k]) = MAX_HISTORY + 1

\* C9 (as stated): the stored sequence of a chat never exceeds H entries.
C9_StoredAtMostH ==
  \A k \in Keys : Len(conversations[k]) <= MAX_HISTORY

\* C9 (amended): the history read through get_history never exceeds H
\* entries and is the end of the stored sequence, which may be longer.
C9_ReadAtMostH ==
  \A k \in Keys :
    LET h == get_history(conversations[k])
    IN /\ Len(h) <= MAX_HISTORY
       /\ Len(h) <= Len(conversations[k])
       /\ h = LastN(conversations[k], Len(h))
       /\ Len(conversations[k]) <= MAX_HISTORY => h = conversations[k]

\* more than H entries are stored
C9_Witness ==
  \E k \in Keys : Len(conversations[k]) > MAX_HISTORY

\* C10: the stored sequence begins with a user entry and alternates user,
\* assistant.
C10_PairsEvicted ==
  \A k \in Keys : \A e \in 1..Len(conversations[k]) :
    conversations[k][e].role = IF e % 2 = 1 THEN "user" ELSE "assistant"

\* the turn of the run of SpecBackend has been classified and answered
Answered == tasks[1] # <<>> /\ tasks[1][1].pc \in {"deliver", "notify"}

\* C11: whatever the backend returns as the raw classification (empty,
\* whitespace only, several words, a label inside punctuation, an unknown
\* word, or a failure), route_message returns a key of CATEGORY_KB, and the
\* category the pipeline hands on for the turn is that key.
C11_LabelInSet ==
  /\ route_message(script.router) \in CATEGORY_KB
  /\ (Answered /\ tasks[1][1].needs_manager) =>
       /\ tasks[1][1].category \in CATEGORY_KB
       /\ tasks[1][1].category = route_message(script.router)

\* C11 witness: a turn was classified from a raw output of several words
\* whose first word is no label, and got the fallback label
C11_Witness ==
  /\ Answered /\ tasks[1][1].needs_manager
  /\ script.router.ok
  /\ LET raw == Lower(Strip(script.router.content))
     IN /\ Len(FirstWord(raw)) < Len(raw)
        /\ StripChars(FirstWord(raw), PUNCT) \notin CATEGORY_KB
  /\ tasks[1][1].category = OtherLabel

\* C12: when the backend call of the classification fails, route_message
\* returns "other"; the step that follows a returned send_chat_action still
\* runs the response stage with that label, appends the user text and the
\* reply to the history and goes on to send the reply; and the processing of
\* the turn comes to an end.
C12_RouterFailure ==
  /\ [][(/\ ~script.router.ok
          /\ tasks[1] # <<>> /\ tasks[1][1].pc = "typing"
          /\ tasks'[1][1].pc \notin {"typing", "typing_error"})
        => LET result == specialist_respond(OtherLabel, script.specialist)
           IN /\ route_message(script.router) = OtherLabel
              /\ tasks'[1][1].pc = "deliver"
              /\ tasks'[1][1].category = OtherLabel
              /\ tasks'[1][1].response = result.response
              /\ conversations'[1] =
                   conversations[1] \o
                     << [role |-> "user",
                         content |-> tasks[1][1].combined_text],
                        [role |-> "assistant", content |-> result.response] >>
       ]_vars
  /\ (~script.router.ok /\ tasks[1] # <<>> /\ Turn(1, 1))
       ~> (tasks[1] # <<>> /\ tasks[1][1].pc \in Terminal)

\* C12 witness: the classification failed and the turn was answered, saved
\* and is being delivered under the fallback label
C12_Witness ==
  /\ ~script.router.ok
  /\ Answered /\ tasks[1][1].pc = "deliver"
  /\ tasks[1][1].category = OtherLabel
  /\ tasks[1][1].response # <<>>
  /\ Len(conversations[1]) = 2

\* C13: when the backend call of the response stage fails, specialist_respond
\* returns the apology, needs_manager = FALSE and the label it was given; the
\* turn is saved and sent with the apology, and notify_manager is not called
\* for it.
C13_SpecialistFailure ==
  ~script.specialist.ok =>
    /\ \A c \in CATEGORY_KB :
         specialist_respond(c, script.specialist) =
           [response |-> APOLOGY, needs_manager |-> FALSE, category |-> c]
    /\ tasks[1] # <<>> =>
         /\ tasks[1][1].pc # "notify"
         /\ ~tasks[1][1].needs_manager
         /\ ~tasks[1][1].notified
         /\ tasks[1][1].pc = "deliver" => tasks[1][1].response = APOLOGY
         /\ (Turn(1, 1) /\ tasks[1][1].pc \in {"deliver", "done", "deliver_error"})
              => conversations[1] =
                   << [role |-> "user", content |-> tasks[1][1].combined_text],
                      [role |-> "assistant", content |-> APOLOGY] >>

\* C13 witness: the response stage failed, the apology was saved and sent,
\* and the task ended without a notification
C13_Witness ==
  /\ ~script.specialist.ok
  /\ tasks[1] # <<>> /\ Turn(1, 1) /\ tasks[1][1].pc = "done"
  /\ Len(conversations[1]) = 2 /\ conversations[1][2].content = APOLOGY
  /\ ~tasks[1][1].notified

\* the response stage of the turn of SpecBackend got a raw output and the
\* task holds its result
Responded == Answered /\ tasks[1][1].pc = "deliver" /\ script.specialist.ok

\* the raw output is a text that holds no marker, followed by the marker
TrailingMarker(raw) ==
  LET n == Len(raw) - Len(MARKER)
  IN /\ n >= 0
     /\ SubSeq(raw, n + 1, Len(raw)) = MARKER
     /\ \A i \in 1..n : SubSeq(raw, i, i + Len(MARKER) - 1) # MARKER

\* C14 (as stated): needs_manager holds exactly when the raw output holds the
\* marker; a raw output with the marker at its end yields the text in front
\* of the marker without trailing whitespace; a raw output without the marker
\* is returned unchanged.
C14_TextUnchanged ==
  Responded =>
    LET raw == script.specialist.content
    IN /\ tasks[1][1].needs_manager <=> Contains(raw, MARKER)
       /\ TrailingMarker(raw) =>
            tasks[1][1].response =
              RStrip(SubSeq(raw, 1, Len(raw) - Len(MARKER)), WS)
       /\ ~Contains(raw, MARKER) => tasks[1][1].response = raw

\* C14 (amended): needs_manager holds exactly when the raw output holds the
\* marker; a raw output with the marker at its end yields the text in front
\* of the marker without leading and trailing whitespace; a raw output
\* without the marker is returned without its leading and trailing
\* whitespace.
C14_TextStripped ==
  Responded =>
    LET raw == script.specialist.content
    IN /\ tasks[1][1].needs_manager <=> Contains(raw, MARKER)
       /\ TrailingMarker(raw) =>
            tasks[1][1].response =
              Strip(SubSeq(raw, 1, Len(raw) - Len(MARKER)))
       /\ ~Contains(raw, MARKER) => tasks[1][1].response = Strip(raw)

\* C14 witness: the raw output "p [MANAGER]" was answered as "p" with
\* needs_manager set
C14_Witness ==
  /\ Responded
  /\ script.specialist.content = <<"p", SP>> \o MARKER
  /\ tasks[1][1].response = <<"p">>
  /\ tasks[1][1].needs_manager

\* two whitespace characters next to each other
DoubledSeparator(s) == \E i \in 1..(Len(s) - 1) : s[i] \in WS /\ s[i + 1] \in WS

\* C15: wherever the marker stands in the raw output (start, middle, end,
\* several times, nested), the visible text holds no marker, does not start
\* or end with whitespace, and has no doubled separator that the raw output
\* did not have.
C15_CleanText ==
  Responded =>
    LET raw == script.specialist.content
        response == tasks[1][1].response
    IN /\ ~Contains(response, MARKER)
       /\ response # <<>> =>
            Head(response) \notin WS /\ response[Len(response)] \notin WS
       /\ ~DoubledSeparator(raw) => ~DoubledSeparator(response)

\* a timer that can still fire finds fragments to drain: the task that
\* sleeps on behalf of a chat is the one of the last fragment, and the buffer
\* of the chat holds that fragment
BufferAtFire ==
  \A k \in Keys : \A i \in 1..Len(tasks[k]) :
    tasks[k][i].pc = "sleep" => message_buffers[k] # <<>>

\* a list of messages that starts with the user and alternates
Alternating(h) ==
  \A p \in 1..Len(h) :
    h[p].role = (IF p % 2 = 1 THEN "user" ELSE "assistant")

\* C17: at every step in which a task classifies and answers its turn, the
\* history that route_message and specialist_respond read through
\* get_history has at most H entries, starts with a user entry and
\* alternates user, assistant, whatever turns, cuts and resets came before.
C17_ReadWellFormed ==
  [][\A k \in Keys : \A i \in 1..Len(tasks[k]) :
       (tasks[k][i].pc = "typing" /\ tasks'[k][i].pc = "deliver") =>
         LET history == get_history(conversations[k])
         IN /\ Len(history) <= MAX_HISTORY
            /\ Alternating(history)
    ]_vars

\* C17 witness: a turn is about to be classified while the store, cut in the
\* middle of the turn before, starts with an assistant entry
C17_Witness ==
  \E i \in 1..Len(tasks[1]) :
    /\ tasks[1][i].pc = "typing"
    /\ Len(conversations[1]) > MAX_HISTORY
    /\ conversations[1][1].role = "assistant"
    /\ Len(get_history(conversations[1])) = MAX_HISTORY

\* C18: a task that drained a non-empty buffer leaves the wait for
\* send_chat_action only by saving the user text and the reply of its turn
\* and going on to send the reply, whichever external call failed.
C18_TurnAnswered ==
  [][\A k \in Keys : \A i \in 1..Len(tasks[k]) :
       (tasks[k][i].pc = "typing" /\ tasks'[k][i].pc # "typing") =>
         /\ tasks'[k][i].pc = "deliver"
         /\ HasPair(conversations'[k], Pair(tasks'[k][i]))
    ]_vars

\* the place of the user entry with the given text in conv (0: none)
UserPos(conv, text) ==
  Largest({p \in 1..Len(conv) :
             conv[p] = [role |-> "user", content |-> text]})

\* C19: the turns of a chat stand in its history in the order in which they
\* were drained: the task of an earlier fragment drains before the task of
\* a later one, so its user entry comes first.
C19_DrainOrder ==
  \A k \in Keys : \A i, j \in 1..Len(tasks[k]) :
    LET pi == UserPos(conversations[k], tasks[k][i].combined_text)
        pj == UserPos(conversations[k], tasks[k][j].combined_text)
    IN (i < j /\ Turn(k, i) /\ Turn(k, j) /\ pi > 0 /\ pj > 0) => pi < pj

\* C20: the history of a chat holds only turns made of fragments that were
\* accepted after cmd_start last ran for the chat: no turn in the history
\* holds a fragment that was in the buffer, or in a turn in flight, when the
\* history was reset.
C20_OnlyAfterReset ==
  \A k \in Keys : \A i \in 1..Len(tasks[k]) :
    (Turn(k, i) /\ UserPos(conversations[k], tasks[k][i].combined_text) > 0)
      => PrevTurn(k, i) >= reset_mark[k]

====
